---- MODULE Spec2Model ----
(***************************************************************************)
(* Model of userspace/camera_info.cpp: the V4L2 device inspection tool.    *)
(*                                                                         *)
(* The program is one sequential pass of main(): locate `v4l2-ctl` on PATH *)
(* (findV4l2Ctl), glob /dev/video*, keep the character devices             *)
(* (isCharDevice), and for each device print a banner and two labelled     *)
(* sections, each filled by runCommandAndPrint (popen / fgets / pclose).   *)
(*                                                                         *)
(* The environment (PATH, the files behind the PATH candidates, the nodes  *)
(* under /dev, the behaviour of every backend invocation) is part of the   *)
(* state.  PATH and the candidates are fixed by Init; the /dev nodes and   *)
(* the backend behaviour are revealed when the program first reads them    *)
(* and stay as revealed for the rest of the behaviour.                     *)
(***************************************************************************)
EXTENDS Integers, Sequences, FiniteSets, TLC

VARIABLES
    pathEnv,      \* getenv("PATH"): [set |-> BOOL, val |-> sequence of characters]
    fs,           \* kind of the file behind each candidate "<dir>/v4l2-ctl"
    scanned,      \* TRUE once /dev has been read (nodes, globFail are revealed)
    nodes,        \* nodes[n] = kind of /dev/video<n>
    globFail,     \* TRUE when glob() itself fails (GLOB_ABORTED / GLOB_NOSPACE)
    backend,      \* backend[<<dev, query>>] = behaviour of that invocation
    chunksUsed,   \* output chunks handed out by the environment so far
    faultsUsed,   \* failures and NUL-holding chunks handed out so far
    pc,           \* position of main()
    v4l2CtlPath,  \* main's v4l2CtlPath
    g,            \* glob_t g: its fields gl_pathc and gl_pathv
    i,            \* loop index of the filter loop (1-based)
    devices,      \* std::vector<std::string> devices
    devIdx,       \* position of the range-for over devices (1-based)
    query,        \* which of inspectDevice's two invocations is running
    cur,          \* behaviour of the child behind the open FILE*
    openHandles,  \* popen()ed streams not yet pclose()d
    printedAny,   \* runCommandAndPrint's printedAny
    nread,        \* chunks fgets has returned for the current stream
    secStart,     \* Len(stdout) when runCommandAndPrint was entered
    stdout,       \* lines written to std::cout
    stderr,       \* lines written to std::cerr
    exitCode,     \* main's return value (-1 while running)
    log,          \* history: one record per finished runCommandAndPrint call
    runNo,        \* 1 for the first run of the program, 2 for the second
    prevOut,      \* stdout of the first run
    prevExit,     \* exit status of the first run
    calls         \* history: the calls main made to findV4l2Ctl, glob and popen

vars == <<pathEnv, fs, scanned, nodes, globFail, backend, chunksUsed, faultsUsed,
          pc, v4l2CtlPath, g, i, devices, devIdx, query, cur, openHandles,
          printedAny, nread, secStart, stdout, stderr, exitCode, log,
          runNo, prevOut, prevExit, calls>>

envVars == <<pathEnv, fs>>
devVars == <<scanned, nodes, globFail>>
beVars  == <<backend, chunksUsed, faultsUsed>>
runVars == <<runNo, prevOut, prevExit>>

(***************************************************************************)
(* Bounds of the model.                                                    *)
(***************************************************************************)
MaxPathLen == 3     \* characters in PATH
MaxEntries == 2     \* names /dev/video1 .. /dev/video<MaxEntries>
MaxChunks  == 1     \* output chunks all backend invocations of a run produce
MaxFaults  == 1     \* failing popen / read / pclose calls and NUL-holding chunks in a run

PathChars == {"a", "b", ":"}
Queries   == <<"--all", "--list-formats-ext">>

SeqsUpTo(S, n) == UNION {[1..k -> S] : k \in 0..n}

(***************************************************************************)
(* std::getline(ss, token, ':') applied until it fails: the tokens of the  *)
(* string.  A delimiter that ends the string yields no empty last token;   *)
(* an empty string yields no token.                                        *)
(***************************************************************************)
RECURSIVE DelimAt(_, _)
DelimAt(s, k) ==
    IF k > Len(s) THEN 0
    ELSE IF s[k] = ":" THEN k
    ELSE DelimAt(s, k + 1)

RECURSIVE GetlineTokens(_)
GetlineTokens(s) ==
    IF s = <<>> THEN <<>>
    ELSE LET k == DelimAt(s, 1) IN
         IF k = 0 THEN <<s>>
         ELSE <<SubSeq(s, 1, k - 1)>> \o GetlineTokens(SubSeq(s, k + 1, Len(s)))

\* candidate = token + "/v4l2-ctl"
Candidate(token) == token \o <<"/v4l2-ctl">>

CandidateKinds == {"absent", "file_noexec", "file_exec", "dir_search"}
KnownCandidates == {Candidate(<<"a">>), Candidate(<<"b">>)}

KindOf(fsys, path) == IF path \in DOMAIN fsys THEN fsys[path] ELSE "absent"

\* access(path, X_OK) == 0: the path exists and the caller may execute it; for a
\* directory that is search permission.
AccessXOK(fsys, path) == KindOf(fsys, path) \in {"file_exec", "dir_search"}

NotFound == [found |-> FALSE, path |-> <<>>]

RECURSIVE SearchTokens(_, _)
SearchTokens(toks, fsys) ==
    IF toks = <<>> THEN NotFound
    ELSE IF Head(toks) = <<>> THEN SearchTokens(Tail(toks), fsys)
    ELSE IF AccessXOK(fsys, Candidate(Head(toks)))
         THEN [found |-> TRUE, path |-> Candidate(Head(toks))]
         ELSE SearchTokens(Tail(toks), fsys)

findV4l2Ctl(env, fsys) ==
    IF ~env.set THEN NotFound
    ELSE SearchTokens(GetlineTokens(env.val), fsys)

(***************************************************************************)
(* /dev: stat() follows symbolic links and fails on a dangling one.        *)
(***************************************************************************)
NodeKinds == {"absent", "chr", "reg", "dir", "dangling", "link_chr", "link_reg"}
Names == 1..MaxEntries

StatMode(kind) ==
    CASE kind = "chr"      -> "S_IFCHR"
      [] kind = "link_chr" -> "S_IFCHR"
      [] kind = "reg"      -> "S_IFREG"
      [] kind = "link_reg" -> "S_IFREG"
      [] kind = "dir"      -> "S_IFDIR"
      [] OTHER             -> "ENOENT"

\* Faulty variant: the S_ISCHR test is dropped, any node stat() can read is kept.
isCharDevice_IgnoresMode(ns, n) == StatMode(ns[n]) # "ENOENT"

isCharDevice(ns, n) ==
    IF StatMode(ns[n]) = "ENOENT" THEN FALSE
    ELSE StatMode(ns[n]) = "S_IFCHR"

\* glob("/dev/video*", 0, ...): every existing name, sorted (no GLOB_NOSORT).
RECURSIVE SortedFrom(_, _)
SortedFrom(ns, n) ==
    IF n > MaxEntries THEN <<>>
    ELSE (IF ns[n] # "absent" THEN <<n>> ELSE <<>>) \o SortedFrom(ns, n + 1)

\* Faulty variant: GLOB_NOSORT, the matches come in directory order (any order).
GlobPathv_NoSort(ns) ==
    {p \in [1..Len(SortedFrom(ns, 1)) -> Names] :
        /\ \A a, b \in 1..Len(p) : a # b => p[a] # p[b]
        /\ \A a \in 1..Len(p) : ns[p[a]] # "absent"}

GlobPathv(ns) == {SortedFrom(ns, 1)}

(***************************************************************************)
(* Output.  A line of std::cout or std::cerr is <<kind, device, query, n>>;*)
(* the device is the number in its path /dev/video<n>, 0 where the line    *)
(* names none.  A "raw" line is the n-th chunk fgets returned for that     *)
(* device and query, written whole; a "raw_prefix" line is the bytes of    *)
(* that chunk before its first NUL byte, all that operator<< writes of a   *)
(* char array.                                                             *)
(***************************************************************************)
Line(kind, dev, q, n) == <<kind, dev, q, n>>
Text(kind) == Line(kind, 0, "", 0)

StartupBlock   == Text("startup_block")           \* lines 161-167
NoVideoMsg     == Text("no_video_devices")        \* line 173
DiscoveredHdr  == Text("discovered_header")       \* line 181
ListLine(dev)  == Line("list_item", dev, "", 0)   \* line 188
Blank          == Text("blank")
NoCharMsg      == Text("no_char_devices")         \* line 193
Rule           == Text("rule")                    \* std::string(80, '=')
DeviceLine(dev) == Line("DEVICE", dev, "", 0)     \* line 122
Label(q)       == Line("label", 0, q, 0)          \* lines 126, 135
NoOutput       == Text("(no output)")             \* line 100
Raw(dev, q, n) == Line("raw", dev, q, n)          \* line 95
RawPrefix(dev, q, n) == Line("raw_prefix", dev, q, n)  \* line 95, chunk cut at a NUL

(***************************************************************************)
(* A chunk fgets stores in line[1024], by where its first NUL byte lies:   *)
(* "text" holds none, "nul_inside" holds one after at least one other      *)
(* byte, "nul_first" begins with one.  std::cout << line (line 95) writes  *)
(* the array as a C string, that is up to the first NUL byte: the whole    *)
(* chunk, its prefix, or nothing.                                          *)
(***************************************************************************)
ChunkKinds == {"text", "nul_inside", "nul_first"}

Written(kind, dev, q, n) ==
    CASE kind = "text"       -> <<Raw(dev, q, n)>>
      [] kind = "nul_inside" -> <<RawPrefix(dev, q, n)>>
      [] kind = "nul_first"  -> <<>>

InstallHint    == Text("not_found_install_hint")  \* lines 154-157
\* "Failed to run command: " << cmd, cmd = "<path>" --device="<dev>" <query>
FailedToRun(path, dev, q) == <<"failed_to_run", dev, q, path>>
ErrorClosing   == Text("error_closing_stream")    \* line 105

(***************************************************************************)
(* The calls main makes, as recorded in `calls`.  The command line of an   *)
(* invocation is "<path>" --device="<dev>" <query> (lines 128-130 and      *)
(* 137-140): the located path, the device and the query flag.              *)
(***************************************************************************)
Cmd(path, dev, q) == <<path, dev, q>>
LocateCall     == <<"findV4l2Ctl", <<>>>>         \* line 153
GlobCall       == <<"glob", <<>>>>                \* line 171
PopenCall(cmd) == <<"popen", cmd>>                \* line 85

(***************************************************************************)
(* The behaviour of one backend invocation, as the environment decides it. *)
(* out lists the chunks fgets returns before it returns nullptr, chunks is *)
(* their number.                                                           *)
(***************************************************************************)
NoOutcome == [known |-> FALSE, spawned |-> FALSE, chunks |-> 0, out |-> <<>>,
              readErr |-> FALSE, closeFail |-> FALSE]

AllOutcomes ==
    {[known |-> TRUE, spawned |-> FALSE, chunks |-> 0, out |-> <<>>,
      readErr |-> FALSE, closeFail |-> FALSE]}
    \cup {[known |-> TRUE, spawned |-> TRUE, chunks |-> Len(w), out |-> w,
           readErr |-> r, closeFail |-> c] :
             w \in SeqsUpTo(ChunkKinds, MaxChunks), r \in BOOLEAN, c \in BOOLEAN}

Bit(b) == IF b THEN 1 ELSE 0
Faults(o) == Bit(~o.spawned) + Bit(o.readErr) + Bit(o.closeFail)
\* The failures of o and its chunks that hold a NUL byte: what MaxFaults rations.
Irregular(o) == Faults(o) + Len(SelectSeq(o.out, LAMBDA c : c # "text"))

Keys == Names \X {Queries[1], Queries[2]}

\* What the environment may answer: as revealed before, or anything the bounds allow.
OutcomeChoices(key) ==
    IF backend[key].known THEN {backend[key]}
    ELSE {o \in AllOutcomes : /\ chunksUsed + o.chunks <= MaxChunks
                              /\ faultsUsed + Irregular(o) <= MaxFaults}

DevChoices ==
    IF scanned THEN {[ns |-> nodes, fail |-> globFail]}
    ELSE [ns : [Names -> NodeKinds], fail : BOOLEAN]

(***************************************************************************)
(* glob_t.  gl_pathv is the vector of matched names, <<>> standing for the *)
(* NULL vector glob leaves when it matched nothing or failed, and globfree *)
(* leaves after releasing the names; gl_pathc is the count glob stored,    *)
(* which globfree does not reset.                                          *)
(***************************************************************************)
NoMatches == [gl_pathc |-> 0, gl_pathv |-> <<>>]

\* glob("/dev/video*", 0, nullptr, &g), line 171, as it fills g.
GlobResult(fail, pathv) ==
    IF fail THEN NoMatches ELSE [gl_pathc |-> Len(pathv), gl_pathv |-> pathv]

\* globfree(&g), lines 174, 194, 203.
globfree(gl) == [gl EXCEPT !.gl_pathv = <<>>]

(***************************************************************************)
(* Initial states.                                                         *)
(***************************************************************************)
PathEnvs ==
    {[set |-> FALSE, val |-> <<>>]}
    \cup {[set |-> TRUE, val |-> s] : s \in SeqsUpTo(PathChars, MaxPathLen)}

FileSystems == [KnownCandidates -> CandidateKinds]

InitProgram ==
    /\ scanned = FALSE
    /\ nodes = [n \in Names |-> "absent"]
    /\ globFail = FALSE
    /\ backend = [k \in Keys |-> NoOutcome]
    /\ chunksUsed = 0
    /\ faultsUsed = 0
    /\ pc = "start"
    /\ v4l2CtlPath = <<>>
    /\ g = NoMatches
    /\ i = 1
    /\ devices = <<>>
    /\ devIdx = 1
    /\ query = 1
    /\ cur = NoOutcome
    /\ openHandles = 0
    /\ printedAny = FALSE
    /\ nread = 0
    /\ secStart = 0
    /\ stdout = <<>>
    /\ stderr = <<>>
    /\ exitCode = -1
    /\ log = <<>>
    /\ runNo = 1
    /\ prevOut = <<>>
    /\ prevExit = -1
    /\ calls = <<>>

\* Every PATH of at most MaxPathLen characters, every kind of candidate file.
InitLocate ==
    /\ pathEnv \in PathEnvs
    /\ fs \in FileSystems
    /\ InitProgram

\* A run of the whole program: PATH unset, empty, one entry, or two entries.
MainPathEnvs ==
    {[set |-> FALSE, val |-> <<>>],
     [set |-> TRUE, val |-> <<>>],
     [set |-> TRUE, val |-> <<"a">>],
     [set |-> TRUE, val |-> <<"b", ":", "a">>]}

MainFileSystems ==
    {f \in FileSystems : f[Candidate(<<"b">>)] = "absent"
                         /\ f[Candidate(<<"a">>)] \in {"absent", "file_exec"}}

Init ==
    /\ pathEnv \in MainPathEnvs
    /\ fs \in MainFileSystems
    /\ InitProgram

\* Faulty variant: the `return 1` of line 158 is missing, main goes on to the scan.
MainLocate_NoReturn ==
    /\ pc = "start"
    /\ calls' = Append(calls, LocateCall)
    /\ LET r == findV4l2Ctl(pathEnv, fs) IN
       /\ stderr' = IF r.found THEN stderr ELSE Append(stderr, InstallHint)
       /\ v4l2CtlPath' = r.path
       /\ stdout' = Append(stdout, StartupBlock)
       /\ pc' = "glob"
       /\ UNCHANGED exitCode
    /\ UNCHANGED <<envVars, devVars, beVars, runVars, g, i, devices, devIdx, query,
                   cur, openHandles, printedAny, nread, secStart, log>>

(***************************************************************************)
(* main(), lines 151-159: locate the backend.                              *)
(***************************************************************************)
MainLocate ==
    /\ pc = "start"
    /\ calls' = Append(calls, LocateCall)
    /\ LET r == findV4l2Ctl(pathEnv, fs) IN
       IF ~r.found
       THEN /\ stderr' = Append(stderr, InstallHint)
            /\ exitCode' = 1
            /\ pc' = "exited"
            /\ UNCHANGED <<v4l2CtlPath, stdout>>
       ELSE /\ v4l2CtlPath' = r.path
            /\ stdout' = Append(stdout, StartupBlock)
            /\ pc' = "glob"
            /\ UNCHANGED <<stderr, exitCode>>
    /\ UNCHANGED <<envVars, devVars, beVars, runVars, g, i, devices, devIdx, query,
                   cur, openHandles, printedAny, nread, secStart, log>>

(***************************************************************************)
(* main(), lines 169-181: glob /dev/video*; on a failure or no match the   *)
(* message, the globfree of line 174 and the return.                       *)
(***************************************************************************)
MainGlob ==
    /\ pc = "glob"
    /\ calls' = Append(calls, GlobCall)
    /\ \E d \in DevChoices : \E pathv \in GlobPathv(d.ns) :
         /\ scanned' = TRUE
         /\ nodes' = d.ns
         /\ globFail' = d.fail
         /\ IF d.fail \/ Len(pathv) = 0
            THEN /\ stdout' = Append(stdout, NoVideoMsg)
                 /\ exitCode' = 0
                 /\ pc' = "exited"
                 /\ g' = globfree(GlobResult(d.fail, pathv))
                 /\ UNCHANGED <<i, devices>>
            ELSE /\ g' = GlobResult(d.fail, pathv)
                 /\ devices' = <<>>
                 /\ stdout' = Append(stdout, DiscoveredHdr)
                 /\ i' = 1
                 /\ pc' = "filter"
                 /\ UNCHANGED exitCode
    /\ UNCHANGED <<envVars, beVars, runVars, v4l2CtlPath, devIdx, query, cur,
                   openHandles, printedAny, nread, secStart, stderr, log>>

(***************************************************************************)
(* main(), lines 182-189: one iteration of the filter loop.                *)
(***************************************************************************)
MainFilter ==
    /\ pc = "filter"
    /\ i <= g.gl_pathc
    /\ IF isCharDevice(nodes, g.gl_pathv[i])
       THEN /\ devices' = Append(devices, g.gl_pathv[i])
            /\ stdout' = Append(stdout, ListLine(g.gl_pathv[i]))
       ELSE UNCHANGED <<devices, stdout>>
    /\ i' = i + 1
    /\ UNCHANGED <<calls, envVars, devVars, beVars, runVars, pc, v4l2CtlPath, g, devIdx,
                   query, cur, openHandles, printedAny, nread, secStart, stderr,
                   exitCode, log>>

\* Faulty variant: the exit of lines 192-196 also repeats the message of line 173.
MainFilterEnd_BothMessages ==
    /\ pc = "filter"
    /\ i > g.gl_pathc
    /\ IF devices = <<>>
       THEN /\ stdout' = stdout \o <<Blank, NoVideoMsg, NoCharMsg>>
            /\ exitCode' = 0
            /\ g' = globfree(g)
            /\ pc' = "exited"
            /\ UNCHANGED devIdx
       ELSE /\ stdout' = Append(stdout, Blank)
            /\ devIdx' = 1
            /\ pc' = "inspect"
            /\ UNCHANGED <<exitCode, g>>
    /\ UNCHANGED <<calls, envVars, devVars, beVars, runVars, v4l2CtlPath, i, devices,
                   query, cur, openHandles, printedAny, nread, secStart, stderr, log>>

\* Faulty variant: an empty device set is treated as an error, `return 1` at line 195.
MainFilterEnd_ExitsOne ==
    /\ pc = "filter"
    /\ i > g.gl_pathc
    /\ IF devices = <<>>
       THEN /\ stdout' = stdout \o <<Blank, NoCharMsg>>
            /\ exitCode' = 1
            /\ g' = globfree(g)
            /\ pc' = "exited"
            /\ UNCHANGED devIdx
       ELSE /\ stdout' = Append(stdout, Blank)
            /\ devIdx' = 1
            /\ pc' = "inspect"
            /\ UNCHANGED <<exitCode, g>>
    /\ UNCHANGED <<calls, envVars, devVars, beVars, runVars, v4l2CtlPath, i, devices,
                   query, cur, openHandles, printedAny, nread, secStart, stderr, log>>

(***************************************************************************)
(* main(), lines 190-196: the loop is over; leave, with the globfree of    *)
(* line 194, when no device was kept.                                      *)
(***************************************************************************)
MainFilterEnd ==
    /\ pc = "filter"
    /\ i > g.gl_pathc
    /\ IF devices = <<>>
       THEN /\ stdout' = stdout \o <<Blank, NoCharMsg>>
            /\ exitCode' = 0
            /\ g' = globfree(g)
            /\ pc' = "exited"
            /\ UNCHANGED devIdx
       ELSE /\ stdout' = Append(stdout, Blank)
            /\ devIdx' = 1
            /\ pc' = "inspect"
            /\ UNCHANGED <<exitCode, g>>
    /\ UNCHANGED <<calls, envVars, devVars, beVars, runVars, v4l2CtlPath, i, devices,
                   query, cur, openHandles, printedAny, nread, secStart, stderr, log>>

(***************************************************************************)
(* inspectDevice(), lines 120-129: the banner and the first label, up to   *)
(* the first call of runCommandAndPrint.                                   *)
(***************************************************************************)
Banner(dev) == <<Rule, DeviceLine(dev), Rule, Blank>>

InspectBegin ==
    /\ pc = "inspect"
    /\ stdout' = stdout \o Banner(devices[devIdx]) \o <<Label(Queries[1])>>
    /\ query' = 1
    /\ pc' = "popen"
    /\ UNCHANGED <<calls, envVars, devVars, beVars, runVars, v4l2CtlPath, g, i, devices,
                   devIdx, cur, openHandles, printedAny, nread, secStart, stderr,
                   exitCode, log>>

(***************************************************************************)
(* What follows a return of runCommandAndPrint (its result is not read):   *)
(* inspectDevice lines 132-135 after the first call, lines 142-147 and the *)
(* loop of main, lines 199-204, after the second, with the globfree of     *)
(* line 203 once the last device is done.  `out` is std::cout as           *)
(* runCommandAndPrint left it.                                             *)
(***************************************************************************)
\* Faulty variant: the second invocation repeats the first query.
NextQuery_Repeats(q) == q

NextQuery(q) == IF q = 1 THEN 2 ELSE 1

\* Faulty variant: inspectDevice returns after its first section.
AfterReturn_SkipsFormats(out) ==
    /\ stdout' = Append(out, Blank)
    /\ query' = query
    /\ IF devIdx < Len(devices)
       THEN /\ devIdx' = devIdx + 1
            /\ pc' = "inspect"
            /\ UNCHANGED <<exitCode, g>>
       ELSE /\ g' = globfree(g)
            /\ exitCode' = 0
            /\ pc' = "exited"
            /\ UNCHANGED devIdx

AfterReturn(out) ==
    IF query = 1
    THEN /\ stdout' = out \o <<Blank, Label(Queries[2])>>
         /\ query' = NextQuery(query)
         /\ pc' = "popen"
         /\ UNCHANGED <<devIdx, exitCode, g>>
    ELSE /\ stdout' = Append(out, Blank)
         /\ query' = query
         /\ IF devIdx < Len(devices)
            THEN /\ devIdx' = devIdx + 1
                 /\ pc' = "inspect"
                 /\ UNCHANGED <<exitCode, g>>
            ELSE /\ g' = globfree(g)
                 /\ exitCode' = 0
                 /\ pc' = "exited"
                 /\ UNCHANGED devIdx

\* Faulty variant: a failed popen ends the whole run with status 1.
ReturnFromSpawnFailure_Aborts(out) ==
    /\ stdout' = out
    /\ g' = globfree(g)
    /\ exitCode' = 1
    /\ pc' = "exited"
    /\ UNCHANGED <<query, devIdx>>

\* runCommandAndPrint lines 86-89 return -1; inspectDevice goes on as after any return.
ReturnFromSpawnFailure(out) == AfterReturn(out)

\* from..to delimit what the call wrote to std::cout, errs counts its std::cerr lines.
Finished(dev, q, o, from, to, errs) ==
    [dev |-> dev, q |-> q, o |-> o, from |-> from, to |-> to, errs |-> errs]

(***************************************************************************)
(* runCommandAndPrint(), lines 85-92: popen.                               *)
(***************************************************************************)
Popen ==
    /\ pc = "popen"
    /\ calls' = Append(calls, PopenCall(Cmd(v4l2CtlPath, devices[devIdx], Queries[query])))
    /\ LET dev == devices[devIdx] IN
       \E o \in OutcomeChoices(<<dev, Queries[query]>>) :
         /\ backend' = [backend EXCEPT ![<<dev, Queries[query]>>] = o]
         /\ chunksUsed' = IF backend[<<dev, Queries[query]>>].known THEN chunksUsed
                          ELSE chunksUsed + o.chunks
         /\ faultsUsed' = IF backend[<<dev, Queries[query]>>].known THEN faultsUsed
                          ELSE faultsUsed + Irregular(o)
         /\ IF ~o.spawned
            THEN /\ stderr' = Append(stderr, FailedToRun(v4l2CtlPath, dev, Queries[query]))
                 /\ log' = Append(log, Finished(dev, Queries[query], o, Len(stdout),
                                                Len(stdout), 1))
                 /\ ReturnFromSpawnFailure(stdout)
                 /\ UNCHANGED <<cur, openHandles, printedAny, nread, secStart>>
            ELSE /\ cur' = o
                 /\ openHandles' = openHandles + 1
                 /\ printedAny' = FALSE
                 /\ nread' = 0
                 /\ secStart' = Len(stdout)
                 /\ pc' = "fgets"
                 /\ UNCHANGED <<stdout, stderr, query, devIdx, exitCode, log, g>>
    /\ UNCHANGED <<envVars, devVars, runVars, v4l2CtlPath, i, devices>>

(***************************************************************************)
(* runCommandAndPrint(), lines 94-97: fgets returns a chunk, operator<<    *)
(* writes it up to its first NUL byte, and printedAny is set whatever was  *)
(* written.                                                                *)
(***************************************************************************)
FgetsChunk ==
    /\ pc = "fgets"
    /\ nread < cur.chunks
    /\ stdout' = stdout \o Written(cur.out[nread + 1], devices[devIdx], Queries[query],
                                   nread + 1)
    /\ printedAny' = TRUE
    /\ nread' = nread + 1
    /\ UNCHANGED <<calls, envVars, devVars, beVars, runVars, pc, v4l2CtlPath, g, i, devices,
                   devIdx, query, cur, openHandles, secStart, stderr, exitCode, log>>

\* Faulty variant: printedAny is not consulted, the marker is always printed.
FgetsNull_AlwaysMarks ==
    /\ pc = "fgets"
    /\ nread = cur.chunks
    /\ stdout' = Append(stdout, NoOutput)
    /\ pc' = "pclose"
    /\ UNCHANGED <<calls, envVars, devVars, beVars, runVars, v4l2CtlPath, g, i, devices,
                   devIdx, query, cur, openHandles, printedAny, nread, secStart,
                   stderr, exitCode, log>>

(***************************************************************************)
(* runCommandAndPrint(), lines 94, 99-101: fgets returns nullptr, at the   *)
(* end of the stream or on a read error; the two are not told apart.       *)
(***************************************************************************)
FgetsNull ==
    /\ pc = "fgets"
    /\ nread = cur.chunks
    /\ stdout' = IF ~printedAny THEN Append(stdout, NoOutput) ELSE stdout
    /\ pc' = "pclose"
    /\ UNCHANGED <<calls, envVars, devVars, beVars, runVars, v4l2CtlPath, g, i, devices,
                   devIdx, query, cur, openHandles, printedAny, nread, secStart,
                   stderr, exitCode, log>>

(***************************************************************************)
(* runCommandAndPrint(), lines 103-109: pclose, and the return.            *)
(***************************************************************************)
Pclose ==
    /\ pc = "pclose"
    /\ openHandles' = openHandles - 1
    /\ stderr' = IF cur.closeFail THEN Append(stderr, ErrorClosing) ELSE stderr
    /\ log' = Append(log, Finished(devices[devIdx], Queries[query], cur, secStart,
                                   Len(stdout), Bit(cur.closeFail)))
    /\ AfterReturn(stdout)
    /\ UNCHANGED <<calls, envVars, devVars, beVars, runVars, v4l2CtlPath, i, devices,
                   cur, printedAny, nread, secStart>>

(***************************************************************************)
(* The operator runs the program again in the same environment.            *)
(***************************************************************************)
Rerun ==
    /\ pc = "exited"
    /\ runNo = 1
    /\ runNo' = 2
    /\ prevOut' = stdout
    /\ prevExit' = exitCode
    /\ pc' = "start"
    /\ v4l2CtlPath' = <<>>
    /\ g' = NoMatches
    /\ i' = 1
    /\ devices' = <<>>
    /\ devIdx' = 1
    /\ query' = 1
    /\ cur' = NoOutcome
    /\ openHandles' = 0
    /\ printedAny' = FALSE
    /\ nread' = 0
    /\ secStart' = 0
    /\ stdout' = <<>>
    /\ stderr' = <<>>
    /\ exitCode' = -1
    /\ log' = <<>>
    /\ calls' = <<>>
    /\ UNCHANGED <<envVars, devVars, beVars>>

Next ==
    \/ MainLocate
    \/ MainGlob
    \/ MainFilter
    \/ MainFilterEnd
    \/ InspectBegin
    \/ Popen
    \/ FgetsChunk
    \/ FgetsNull
    \/ Pclose

Spec == Init /\ [][Next]_vars

\* main is one thread and every call it makes returns: a step that can be taken is
\* taken (every spawned backend terminates, so fgets and pclose return).
SpecFair == Init /\ [][Next]_vars /\ WF_vars(Next)

NextTwoRuns == Next \/ Rerun

SpecTwoRuns == Init /\ [][NextTwoRuns]_vars

SpecLocate == InitLocate /\ [][MainLocate]_vars

(***************************************************************************)
(* Vocabulary of the properties.                                           *)
(***************************************************************************)
Range(seq) == {seq[k] : k \in 1..Len(seq)}
Count(seq, Test(_)) == Len(SelectSeq(seq, Test))

\* A node is character-special when it is a character device or a symbolic link
\* that resolves to one.
CharSpecial(kind) == kind \in {"chr", "link_chr"}

\* The character-special nodes of /dev/video*, in the order of their names.
ExpectedDevices ==
    CHOOSE s \in SeqsUpTo(Names, MaxEntries) :
        /\ \A a, b \in 1..Len(s) : a < b => s[a] < s[b]
        /\ Range(s) = {n \in Names : CharSpecial(nodes[n])}

BackendLocated == v4l2CtlPath # <<>>
IsNoDevicesMsg(l) == l \in {NoVideoMsg, NoCharMsg}
\* What the backend wrote, as far as operator<< forwarded it.
IsBackendText(l) == l[1] \in {"raw", "raw_prefix"}
IsPerDevice(l) ==
    l[1] \in {"rule", "DEVICE", "label", "(no output)"} \/ IsBackendText(l)
IsStructural(l) == l[1] \in {"DEVICE", "label"}
IsRule(l) == l = Rule
NoInvocation == log = <<>> /\ openHandles = 0 /\ \A k \in Keys : ~backend[k].known

\* The device lines and section labels of a full report on devs.
RECURSIVE Skeleton(_)
Skeleton(devs) ==
    IF devs = <<>> THEN <<>>
    ELSE <<DeviceLine(Head(devs)), Label(Queries[1]), Label(Queries[2])>>
         \o Skeleton(Tail(devs))

\* What runCommandAndPrint wrote to std::cout in the finished call r.
Section(r) == SubSeq(stdout, r.from + 1, r.to)

\* C1: when findV4l2Ctl fails, main exits with status 1 and an install hint on
\* stderr, never scans /dev/video*, never invokes the backend, and writes nothing
\* to stdout.
C1_MissingBackendIsFatal ==
    (pc # "start" /\ ~findV4l2Ctl(pathEnv, fs).found) =>
        /\ pc = "exited"
        /\ exitCode = 1
        /\ stderr = <<InstallHint>>
        /\ stdout = <<>>
        /\ ~scanned
        /\ NoInvocation

C1_Witness ==
    /\ pc = "exited"
    /\ exitCode = 1
    /\ pathEnv.set
    /\ pathEnv.val # <<>>

\* C2: when the backend is located and the scan yields no character-special match
\* (glob fails, matches nothing, or matches only other nodes), the exit status is 0,
\* stdout holds a no-devices message exactly once, no device banner is printed and
\* no backend invocation is made.
C2_NoDevicesIsNotAnError ==
    (BackendLocated /\ scanned /\ (globFail \/ ExpectedDevices = <<>>)) =>
        /\ pc = "exited" => (exitCode = 0 /\ Count(stdout, IsNoDevicesMsg) = 1)
        /\ Count(stdout, IsNoDevicesMsg) <= 1
        /\ \A k \in 1..Len(stdout) : ~IsPerDevice(stdout[k])
        /\ NoInvocation

C2_Witness ==
    /\ pc = "exited"
    /\ BackendLocated
    /\ ~globFail
    /\ \E n \in Names : nodes[n] = "reg"
    /\ NoCharMsg \in Range(stdout)

\* C3: a run over N >= 1 character devices prints exactly N banners (rule, DEVICE
\* line, rule), the i-th naming the i-th device in discovery order, each followed
\* before the next banner by exactly the two section labels, --all first.
C3_BannersAndSectionsInOrder ==
    (pc = "exited" /\ BackendLocated /\ scanned /\ ~globFail
     /\ ExpectedDevices # <<>>) =>
        /\ SelectSeq(stdout, IsStructural) = Skeleton(ExpectedDevices)
        /\ Count(stdout, IsRule) = 2 * Len(ExpectedDevices)
        /\ \A k \in 1..Len(stdout) :
              stdout[k][1] = "DEVICE" =>
                  /\ k > 1 /\ stdout[k - 1] = Rule
                  /\ k < Len(stdout) /\ stdout[k + 1] = Rule

C3_Witness ==
    /\ pc = "exited"
    /\ Len(devices) = 2
    /\ Count(stdout, IsStructural) = 6

\* C4: the device set is the subsequence, in glob order, of the matches that are
\* character-special; every other match is skipped without a diagnostic and never
\* appears in the list of discovered devices, in a banner or in an invocation.
C4_DeviceSetIsCharSpecialMatches ==
    /\ \A k \in 1..Len(stdout) :
          (stdout[k][1] \in {"list_item", "DEVICE"} \/ IsBackendText(stdout[k]))
              => CharSpecial(nodes[stdout[k][2]])
    /\ \A k \in Keys : backend[k].known => CharSpecial(nodes[k[1]])
    /\ \A k \in 1..Len(log) : CharSpecial(nodes[log[k].dev])
    /\ pc = "filter" => stderr = <<>>
    /\ (scanned /\ ~globFail /\ pc \in {"inspect", "popen", "fgets", "pclose", "exited"}) =>
          /\ devices = ExpectedDevices
          /\ SelectSeq(stdout, LAMBDA l : l[1] = "list_item")
                = [k \in 1..Len(devices) |-> ListLine(devices[k])]

C4_Witness ==
    /\ pc = "exited"
    /\ nodes[1] = "reg"
    /\ nodes[2] = "chr"
    /\ devices = <<2>>
    /\ Len(log) = 2

\* C5: a spawned invocation that produced no output leaves exactly the one line
\* `(no output)` in its section, and the line is never printed for an invocation
\* from which a chunk was read.
C5_NoOutputMarker ==
    \A k \in 1..Len(log) :
        log[k].o.spawned =>
            /\ log[k].o.chunks = 0 => Section(log[k]) = <<NoOutput>>
            /\ log[k].o.chunks > 0 => NoOutput \notin Range(Section(log[k]))

C5_Witness ==
    /\ \E k \in 1..Len(log) : log[k].o.spawned /\ log[k].o.chunks = 0
    /\ \E k \in 1..Len(log) : log[k].o.spawned /\ log[k].o.chunks > 0
                              /\ Len(Section(log[k])) = log[k].o.chunks

\* C6: in every run, every section label is followed in stdout by the backend's raw
\* text or by the `(no output)` line, whatever the outcome of its invocation.
C6_NoBlankSection ==
    pc = "exited" =>
        \A k \in 1..Len(stdout) :
            stdout[k][1] = "label" =>
                /\ k < Len(stdout)
                /\ IsBackendText(stdout[k + 1]) \/ stdout[k + 1] = NoOutput

\* C7: a failed popen is reported with the command (device and query) it was for,
\* and the run goes on: every device still gets its banner and both sections, both
\* invocations of every device are attempted, and the exit status is 0.
C7_SpawnFailureIsLocal ==
    /\ \A k \in 1..Len(log) :
          ~log[k].o.spawned =>
              FailedToRun(v4l2CtlPath, log[k].dev, log[k].q) \in Range(stderr)
    /\ (pc = "exited" /\ \E k \in 1..Len(log) : ~log[k].o.spawned) =>
          /\ exitCode = 0
          /\ SelectSeq(stdout, IsStructural) = Skeleton(devices)
          /\ [k \in 1..Len(log) |-> <<log[k].dev, log[k].q>>]
                = [k \in 1..(2 * Len(devices)) |->
                      <<devices[(k + 1) \div 2], Queries[2 - (k % 2)]>>]

C7_Witness ==
    /\ pc = "exited"
    /\ Len(devices) = 2
    /\ Len(log) = 4
    /\ ~log[1].o.spawned

\* C8: every failure of a backend invocation (popen fails, reading the child's
\* output fails, pclose fails) leaves a line of its own: a diagnostic on stderr, or
\* in the invocation's section of stdout a line that is not backend text.
Failed(r) == Faults(r.o) > 0
Reported(r) == r.errs > 0 \/ \E l \in Range(Section(r)) : ~IsBackendText(l)

C8_NoSilentFailure ==
    \A k \in 1..Len(log) : Failed(log[k]) => Reported(log[k])

\* C9: findV4l2Ctl returns the candidate of the first PATH entry, left to right,
\* whose candidate is an executable file; it reports not-found exactly when no
\* entry has one (an unset or empty PATH has none), and it executes nothing.
IsEntry(s, a, b) ==
    /\ a <= b
    /\ \A k \in a..b : s[k] # ":"
    /\ a = 1 \/ s[a - 1] = ":"
    /\ b = Len(s) \/ s[b + 1] = ":"

ExecutableEntries ==
    IF ~pathEnv.set THEN {}
    ELSE {e \in (1..Len(pathEnv.val)) \X (1..Len(pathEnv.val)) :
            /\ IsEntry(pathEnv.val, e[1], e[2])
            /\ KindOf(fs, Candidate(SubSeq(pathEnv.val, e[1], e[2]))) = "file_exec"}

FirstOf(entries) == CHOOSE e \in entries : \A f \in entries : e[1] <= f[1]

C9_FirstExecutableFile ==
    pc # "start" =>
        /\ NoInvocation
        /\ IF ExecutableEntries = {}
           THEN ~BackendLocated /\ exitCode = 1
           ELSE LET e == FirstOf(ExecutableEntries) IN
                v4l2CtlPath = Candidate(SubSeq(pathEnv.val, e[1], e[2]))

\* C10: a second run in the same environment (same PATH, same /dev/video* nodes,
\* same behaviour of every backend invocation) writes the same stdout and exits
\* with the same status as the first.
C10_Idempotent ==
    (runNo = 2 /\ pc = "exited") => (stdout = prevOut /\ exitCode = prevExit)

C10_Witness ==
    /\ runNo = 2
    /\ pc = "exited"
    /\ Len(devices) = 2
    /\ \E k \in 1..Len(log) : Faults(log[k].o) > 0
    /\ \E k \in 1..Len(log) : log[k].o.chunks > 0

\* C11: the run is a single pass: findV4l2Ctl is called once and its path is used
\* unchanged in every command, glob is called once, and the commands passed to popen
\* are, for each device of the device set in order and once only, `--all` and then
\* `--list-formats-ext` on that device: 2N invocations for N devices, no retry.
ExpectedInvocations(path, devs) ==
    [k \in 1..(2 * Len(devs)) |->
        PopenCall(Cmd(path, devs[(k + 1) \div 2], Queries[2 - (k % 2)]))]

ExpectedCalls ==
    IF ~findV4l2Ctl(pathEnv, fs).found THEN <<LocateCall>>
    ELSE <<LocateCall, GlobCall>>
         \o ExpectedInvocations(findV4l2Ctl(pathEnv, fs).path,
                                IF globFail THEN <<>> ELSE ExpectedDevices)

IsPrefix(s, t) == Len(s) <= Len(t) /\ s = SubSeq(t, 1, Len(s))

C11_SinglePass ==
    /\ BackendLocated => v4l2CtlPath = findV4l2Ctl(pathEnv, fs).path
    /\ IF pc = "exited" THEN calls = ExpectedCalls
       ELSE pc # "start" => (calls # <<>> /\ IsPrefix(calls, ExpectedCalls))

C11_Witness ==
    /\ pc = "exited"
    /\ Len(devices) = 2
    /\ Len(calls) = 6
    /\ \E k \in 1..Len(log) : Failed(log[k])

\* C12: invocations are sequential and blocking: at most one child stream is open,
\* and only while runCommandAndPrint reads or closes it; the stream has been read to
\* its end, so that nothing the child wrote is left unread, when pclose is called;
\* every earlier invocation has returned, with its stream closed, before the next
\* popen, the next device or the end of main, whether the invocation succeeded or
\* failed.
IsPopenCall(c) == c[1] = "popen"

\* The nullptr that ended the fgets loop was the end of the stream, not a read error.
ReadToEnd(o) == ~o.readErr

HandlesSequential ==
    /\ openHandles \in {0, 1}
    /\ openHandles = 1 <=> pc \in {"fgets", "pclose"}
    /\ Count(calls, IsPopenCall) = Len(log) + openHandles
    /\ pc = "exited" => openHandles = 0

DrainedBeforeClose ==
    /\ pc = "pclose" => (nread = cur.chunks /\ ReadToEnd(cur))
    /\ \A k \in 1..Len(log) : log[k].o.spawned => ReadToEnd(log[k].o)

C12_OneHandleAtATime ==
    /\ HandlesSequential
    /\ DrainedBeforeClose

\* C13: when every spawned invocation terminates, every run ends, in exactly one
\* terminal state, and moves only Init->Fatal, Init->Discover, Discover->NoDevices,
\* Discover->Reporting, Reporting->Done; Fatal exits 1 and happens only when no PATH
\* entry has an executable backend, NoDevices and Done exit 0, and Done comes after
\* both invocations of the last device, whatever failed in between.
Phase ==
    CASE pc = "start" -> "Init"
      [] pc \in {"glob", "filter"} -> "Discover"
      [] pc \in {"inspect", "popen", "fgets", "pclose"} -> "Reporting"
      [] pc = "exited" /\ exitCode = 0 /\ devices = <<>> -> "NoDevices"
      [] pc = "exited" /\ exitCode = 0 /\ devices # <<>> -> "Done"
      [] pc = "exited" /\ exitCode = 1 -> "Fatal"
      [] OTHER -> "Undefined"

Terminal == {"Fatal", "NoDevices", "Done"}

Transitions ==
    {<<"Init", "Fatal">>, <<"Init", "Discover">>, <<"Discover", "NoDevices">>,
     <<"Discover", "Reporting">>, <<"Reporting", "Done">>}

PhaseStep ==
    /\ Phase \notin Terminal
    /\ Phase' = Phase \/ <<Phase, Phase'>> \in Transitions

ExitStatusRule ==
    /\ Phase # "Undefined"
    /\ pc # "exited" => exitCode = -1
    /\ Phase = "Fatal" => (~BackendLocated /\ ExecutableEntries = {})
    /\ (pc = "exited" /\ BackendLocated) => exitCode = 0
    /\ Phase = "Done" => (devIdx = Len(devices) /\ Len(log) = 2 * Len(devices))

C13_EveryRunEnds ==
    /\ <>(Phase \in Terminal)
    /\ [][PhaseStep]_vars
    /\ []ExitStatusRule

C13_Witness ==
    /\ Phase = "Done"
    /\ Len(devices) = 2
    /\ \E k \in 1..Len(log) : Failed(log[k])

====
